---- MODULE Spec2Model ----
(***************************************************************************)
(* serverless-plugin-healthcheck: the HealthCheck plugin class and the     *)
(* handler it generates.                                                   *)
(*                                                                         *)
(* The repository holds three versions of the plugin class:                *)
(*   "index"   src/src/index.js      per-route checks, template artifact   *)
(*   "part000" src/unnamed/part_000  as "index", plus the role option      *)
(*   "part001" src/unnamed/part_001  function-name list, inline handler    *)
(* The variable `variant` says which one runs; it never changes.           *)
(*                                                                         *)
(* JavaScript values are tagged records [t, v]: t is the value's kind and  *)
(* v its content, so that values of different kinds can be compared.       *)
(***************************************************************************)
EXTENDS Integers, Sequences, FiniteSets, TLC

VARIABLES
  variant,      \* which version of the plugin class runs
  options,      \* this.options: [stage]
  custom,       \* this.custom = serverless.service.custom
  functions,    \* serverless.service.functions, in key order: <<[key, obj]>>
  plugin,       \* the fields configPlugin sets on `this`
  fs,           \* the service directory: folder name -> artifact or NoFile
  log,          \* the lines serverless.cli.log received in the last hook
  phase,        \* position in the host's lifecycle
  calls,        \* number of hooks the host has run
  lastHook,     \* the hook that ran last
  result,       \* how the last hook ended: "none", "ok" or "rejected"
  selected,     \* the array the filter passed on in the last hook, or Undef
  invoked,      \* the Lambda invoke requests the plugin issued (pre-check)
  fsAnswer,     \* how the file system answered the last artifact generation
  precheckResponse, \* what the last pre-check request ended with, or Undef
  hArtifact,    \* the artifact the running handler was loaded from
  hTargets,     \* the target names that artifact was generated from
  hNames,       \* the handler's functionNames
  hPc,          \* the handler: "idle", "waiting", "done"
  hInvokes,     \* the handler's invokes: per index, "pending" or an outcome
  hIssued,      \* the FunctionName of every lambda.invoke call, in order
  hErrors,      \* the handler's errors counter
  hCallbacks,   \* how often the handler called callback()
  hLog          \* the handler's final console.log line, or Undef

lifecycleVars == <<variant, options, custom, functions, plugin, fs, log, phase,
                   calls, lastHook, result, selected, invoked, fsAnswer,
                   precheckResponse>>
handlerVars == <<hArtifact, hTargets, hNames, hPc, hInvokes, hIssued, hErrors,
                 hCallbacks, hLog>>
vars == <<variant, options, custom, functions, plugin, fs, log, phase,
          calls, lastHook, result, selected, invoked, fsAnswer,
          precheckResponse,
          hArtifact, hTargets, hNames, hPc, hInvokes, hIssued, hErrors,
          hCallbacks, hLog>>

(***************************************************************************)
(* Bounds of the model.                                                    *)
(***************************************************************************)
MaxFuncs == 2        \* declared functions in the service
MaxCalls == 4        \* hooks the host runs in one behaviour
MaxOverridden == 2   \* options set at once in custom.healthcheck
MaxSchedule == 2     \* entries of a schedule list override
MaxTargets == 2      \* targets the handler's artifact was generated from

(***************************************************************************)
(* JavaScript values.                                                      *)
(***************************************************************************)
Undef == [t |-> "undefined", v |-> 0]
B(b) == [t |-> "boolean", v |-> b]
N(n) == [t |-> "number", v |-> n]
S(s) == [t |-> "string", v |-> s]
L(q) == [t |-> "array", v |-> q]
O(r) == [t |-> "object", v |-> r]

\* typeof x
Typeof(x) == IF x.t = "array" THEN "object" ELSE x.t

\* Array.isArray(x)
IsArray(x) == x.t = "array"

\* x === y (arrays and objects are equal only to themselves: two values read
\* from different places of the configuration are different objects)
StrictEq(x, y) ==
  /\ x.t = y.t
  /\ x.t \notin {"array", "object"}
  /\ x.v = y.v

\* the truth value of x in a condition
Truthy(x) ==
  CASE x.t = "undefined" -> FALSE
    [] x.t = "boolean" -> x.v
    [] x.t = "number" -> x.v # 0
    [] x.t = "string" -> x.v # ""
    [] OTHER -> TRUE

\* arr.indexOf(x) !== -1
Includes(arr, x) == \E i \in 1..Len(arr.v) : StrictEq(arr.v[i], x)

\* obj.field, undefined when the object has no such field
Get(obj, field) == IF field \in DOMAIN obj THEN obj[field] ELSE Undef

\* String(x) as '+' builds it into a string
ToStr(x) == IF x.t = "string" THEN x.v ELSE "undefined"

(***************************************************************************)
(* configPlugin                                                            *)
(***************************************************************************)
ServiceName == "svc"
ServicePath == "/srv"

\* custom.healthcheck when custom and custom.healthcheck are both truthy
HasHealthcheckSection(c) ==
  /\ c.t = "object"
  /\ Truthy(Get(c.v, "healthcheck"))

\* the default options record, per version
DefaultOptions(vr, stage) ==
  LET name == S(ServiceName \o "-" \o ToStr(stage) \o "-healthcheck-plugin")
      base == [cleanFolder |-> B(TRUE), memorySize |-> N(128), name |-> name,
               schedule |-> L(<<S("rate(5 minutes)")>>), timeout |-> N(10)]
  IN CASE vr = "index" ->
            [cleanFolder |-> base.cleanFolder, memorySize |-> base.memorySize,
             name |-> base.name, schedule |-> base.schedule,
             timeout |-> base.timeout, precheck |-> B(FALSE),
             endpoint |-> S("__health")]
       [] vr = "part000" ->
            [cleanFolder |-> base.cleanFolder, memorySize |-> base.memorySize,
             role |-> Undef, name |-> base.name, schedule |-> base.schedule,
             timeout |-> base.timeout, precheck |-> B(FALSE),
             endpoint |-> S("__health")]
       [] OTHER ->
            [cleanFolder |-> base.cleanFolder, memorySize |-> base.memorySize,
             name |-> base.name, schedule |-> base.schedule,
             timeout |-> base.timeout, prewarm |-> B(FALSE)]

\* one `if (typeof custom.healthcheck.f === ty) healthcheck.f = ...` statement
Override(rec, hc, f, ty) ==
  IF Typeof(Get(hc, f)) = ty
    THEN [k \in DOMAIN rec \cup {f} |-> IF k = f THEN hc[f] ELSE rec[k]]
    ELSE rec

\* OverrideSchedule without the wrapping of a string
OverrideScheduleUnwrapped(rec, hc) ==
  LET s == Get(hc, "schedule")
  IN IF Typeof(s) = "string" \/ IsArray(s)
       THEN [rec EXCEPT !.schedule = s]
       ELSE rec

\* the schedule statement: a string is wrapped, an array is taken as it is
OverrideSchedule(rec, hc) ==
  LET s == Get(hc, "schedule")
  IN IF Typeof(s) = "string"
       THEN [rec EXCEPT !.schedule = L(<<s>>)]
       ELSE IF IsArray(s) THEN [rec EXCEPT !.schedule = s] ELSE rec

\* the options, in the order of the statements of each version
ResolveOptions(vr, c, stage) ==
  LET d == DefaultOptions(vr, stage)
  IN IF ~HasHealthcheckSection(c) THEN d
     ELSE
       LET hc == c.v.healthcheck.v
           r1 == Override(d, hc, "cleanFolder", "boolean")
           r2 == Override(r1, hc, "memorySize", "number")
           r3 == IF vr = "part000" THEN Override(r2, hc, "role", "string") ELSE r2
           r4 == Override(r3, hc, "name", "string")
           r5 == OverrideSchedule(r4, hc)
           r6 == Override(r5, hc, "timeout", "number")
           r7 == Override(r6, hc, "precheck", "boolean")
       IN IF vr = "part001" THEN r7 ELSE Override(r7, hc, "endpoint", "string")

\* the folder name statement at the head of configPlugin
ResolveFolderName(c) ==
  IF HasHealthcheckSection(c)
     /\ Typeof(Get(c.v.healthcheck.v, "folderName")) = "string"
    THEN c.v.healthcheck.v.folderName.v
    ELSE "_healthcheck"

\* configPlugin(): the fields it sets on `this`
ConfigPlugin(vr, c, opts) ==
  LET folder == ResolveFolderName(c)
  IN [folderName |-> folder,
      pathFolder |-> ServicePath \o "/" \o folder,
      pathFile |-> ServicePath \o "/" \o folder \o "/index.js",
      pathHandler |-> folder \o "/index.healthCheck",
      healthcheck |-> ResolveOptions(vr, c, opts.stage)]

(***************************************************************************)
(* getEventsWithHealthChecks and getFunctionsWithHealthChecks              *)
(*                                                                         *)
(* A function object is a record [name, events] with, when declared, a     *)
(* healthcheck field.  An event is a record with an http field (a record   *)
(* with, when declared, a healthcheck field) or without one.  A call that  *)
(* may throw returns [ok, val]: ok is FALSE when it threw.                 *)
(***************************************************************************)
PluginKey == "healthCheckPlugin"

\* serverless.service.getAllFunctions(): the keys, in order
GetAllFunctions(fns) == [i \in 1..Len(fns) |-> fns[i].key]

\* serverless.service.getFunction(key)
GetFunction(fns, key) ==
  LET i == CHOOSE j \in 1..Len(fns) : fns[j].key = key IN fns[i].obj

\* the reduce over a function's events: reading eventObject.http.healthcheck
\* throws a TypeError when the event has no http section
RECURSIVE ReduceEvents(_, _)
ReduceEvents(events, healthchecks) ==
  IF events = <<>> THEN [ok |-> TRUE, val |-> healthchecks]
  ELSE LET eventObject == Head(events)
       IN IF "http" \notin DOMAIN eventObject
            THEN [ok |-> FALSE, val |-> <<>>]
            ELSE LET hc == Get(eventObject.http, "healthcheck")
                 IN IF Truthy(hc)
                      THEN ReduceEvents(Tail(events),
                             Append(healthchecks,
                                    [params |-> Get(hc.v, "params"),
                                     format |-> Get(hc.v, "format")]))
                      ELSE ReduceEvents(Tail(events), healthchecks)

GetEventsWithHealthChecks(fns, key) ==
  ReduceEvents(GetFunction(fns, key).events, <<>>)

\* NeedsCheck without its third disjunct: a list declaration is not read
NeedsCheckNoArray(decl, stage) ==
  \/ StrictEq(decl, B(TRUE))
  \/ StrictEq(decl, stage)

\* the condition of the filter callback
NeedsCheck(decl, stage) ==
  \/ StrictEq(decl, B(TRUE))
  \/ StrictEq(decl, stage)
  \/ (IsArray(decl) /\ Includes(decl, stage))

\* index.js and part_000: the function infos, then the filter on info.stage
FunctionInfos(fns) ==
  [i \in 1..Len(fns) |->
     [name |-> fns[i].obj.name,
      stage |-> Get(fns[i].obj, "healthcheck"),
      checks |-> GetEventsWithHealthChecks(fns, fns[i].key).val]]

InfoFilter(infos, stage) ==
  LET Keep(functionInfo) == NeedsCheck(functionInfo.stage, stage)
  IN SelectSeq(infos, Keep)

GetFunctionsWithHealthChecks(fns, stage) ==
  IF \E i \in 1..Len(fns) : ~GetEventsWithHealthChecks(fns, fns[i].key).ok
    THEN [ok |-> FALSE, val |-> <<>>]
    ELSE [ok |-> TRUE, val |-> InfoFilter(FunctionInfos(fns), stage)]

\* part_001: the filter in createHealthCheck, on the function keys
KeyFilter(fns, stage) ==
  LET Keep(functionName) ==
        NeedsCheck(Get(GetFunction(fns, functionName), "healthcheck"), stage)
  IN SelectSeq(GetAllFunctions(fns), Keep)

\* the array the first .then of createHealthCheck receives
SelectTargets(vr, fns, stage) ==
  IF vr = "part001"
    THEN [ok |-> TRUE, val |-> KeyFilter(fns, stage)]
    ELSE GetFunctionsWithHealthChecks(fns, stage)

(***************************************************************************)
(* createHealthCheckFunctionArtifact                                       *)
(*                                                                         *)
(* A text is kept as the sequence of its comma-free segments: "a,b" is     *)
(* <<"a", "b">>, "a" is <<"a">> and "" is <<"">>.  join() of a list of     *)
(* strings is then the concatenation of their segments and split(",")      *)
(* makes one string of each segment.                                       *)
(***************************************************************************)
NoFile == [kind |-> "none"]

\* the comma-free segments of the strings of the model
Segments(str) == IF str = "a,b" THEN <<"a", "b">> ELSE <<str>>

\* names.join()
RECURSIVE Join(_)
Join(names) ==
  IF names = <<>> THEN <<"">>
  ELSE IF Len(names) = 1 THEN Segments(ToStr(names[1]))
  ELSE Segments(ToStr(names[1])) \o Join(Tail(names))

\* text.split(",")
Split(text) == [i \in 1..Len(text) |-> S(text[i])]

\* JSON.stringify(x) of a record: fields that are undefined are left out
JsonRecord(r) == [k \in {f \in DOMAIN r : r[f] # Undef} |-> r[k]]

\* JSON.stringify(functionObjects)
JsonInfos(infos) ==
  [i \in 1..Len(infos) |->
     LET info == infos[i]
     IN JsonRecord([name |-> info.name, stage |-> info.stage,
                    checks |-> L([j \in 1..Len(info.checks) |->
                                    JsonRecord(info.checks[j])])])]

\* reading this.custom.healthcheck.format throws a TypeError when custom or
\* custom.healthcheck is undefined
FormatThrows(c) ==
  \/ c.t = "undefined"
  \/ (c.t = "object" /\ Get(c.v, "healthcheck").t = "undefined")

OutputHeader(c) ==
  IF Get(c.v, "healthcheck").t = "object"
    THEN Get(c.v.healthcheck.v, "format")
    ELSE Undef

\* the log lines of createHealthCheckFunctionArtifact, index.js and part_000
RECURSIVE ParamLines(_)
ParamLines(checks) ==
  IF checks = <<>> THEN <<>>
  ELSE <<[msg |-> "    Params: ", arg |-> Head(checks).params]>>
       \o ParamLines(Tail(checks))

RECURSIVE InfoLines(_)
InfoLines(infos) ==
  IF infos = <<>> THEN <<>>
  ELSE <<[msg |-> "HealthCheck: ", arg |-> Head(infos).name]>>
       \o ParamLines(Head(infos).checks) \o InfoLines(Tail(infos))

\* part_001: the names of the selected keys, each logged
TargetNames(fns, keys) ==
  [i \in 1..Len(keys) |-> GetFunction(fns, keys[i]).name]

NameLines(names) ==
  [i \in 1..Len(names) |-> [msg |-> "HealthCheck: ", arg |-> names[i]]]

\* part_001: the generated source, as what it embeds
InlineArtifact(names) ==
  [kind |-> "inline", functionNames |-> Join(names)]

\* index.js and part_000: the template with its tokens substituted
TemplateArtifact(infos, c) ==
  [kind |-> "template", healthchecks |-> JsonInfos(infos),
   outputHeader |-> OutputHeader(c)]

\* CreateHealthCheckFunctionArtifact without `return` before the write: the
\* caller goes on without the write's outcome
CreateHealthCheckFunctionArtifactNotAwaited(vr, p, c, fns, files, targets, readOk, writeOk) ==
  [ok |-> TRUE, log |-> <<>>, fs |-> files]

\* createHealthCheckFunctionArtifact(targets): [ok, fs, log].  readOk and
\* writeOk say whether the template read and the file write succeed.
CreateHealthCheckFunctionArtifact(vr, p, c, fns, files, targets, readOk, writeOk) ==
  LET head == <<[msg |-> "HealthCheck: setting lambdas to be checked",
                 arg |-> N(Len(targets))]>>
  IN IF vr = "part001"
       THEN LET names == TargetNames(fns, targets)
                lines == head \o NameLines(names)
            IN IF writeOk
                 THEN [ok |-> TRUE, log |-> lines,
                       fs |-> [files EXCEPT ![p.folderName] = InlineArtifact(names)]]
                 ELSE [ok |-> FALSE, log |-> lines, fs |-> files]
       ELSE LET lines == head \o InfoLines(targets)
            IN IF readOk /\ ~FormatThrows(c) /\ writeOk
                 THEN [ok |-> TRUE, log |-> lines,
                       fs |-> [files EXCEPT ![p.folderName] = TemplateArtifact(targets, c)]]
                 ELSE [ok |-> FALSE, log |-> lines, fs |-> files]

(***************************************************************************)
(* addHealthCheckFunctionToService                                         *)
(***************************************************************************)
\* PutFunction as a push onto a list: a known key is not replaced
PutFunctionAppend(fns, key, obj) == Append(fns, [key |-> key, obj |-> obj])

\* PutFunction as an assignment to service.functions itself: the other
\* entries are dropped
PutFunctionAlone(fns, key, obj) == <<[key |-> key, obj |-> obj]>>

\* functions[key] = obj: a new key is added last, a known key keeps its place
PutFunction(fns, key, obj) ==
  IF \E i \in 1..Len(fns) : fns[i].key = key
    THEN [i \in 1..Len(fns) |->
            IF fns[i].key = key THEN [key |-> key, obj |-> obj] ELSE fns[i]]
    ELSE Append(fns, [key |-> key, obj |-> obj])

\* part_001: this.healthcheck.schedule.map(schedule => { return { schedule } })
ScheduleEvents(schedule) ==
  [i \in 1..Len(schedule.v) |-> [schedule |-> schedule.v[i]]]

\* index.js and part_000: the one event object of the descriptor
EndpointEvents(hc) ==
  <<[http |-> [path |-> hc.endpoint, method |-> "get", private |-> FALSE],
     schedule |-> [rate |-> hc.schedule]]>>

\* the descriptor literal, without the role
BaseDescriptor(vr, p) ==
  [description |-> "Serverless HealthCheck Plugin",
   events |-> IF vr = "part001" THEN ScheduleEvents(p.healthcheck.schedule)
              ELSE EndpointEvents(p.healthcheck),
   handler |-> p.pathHandler,
   memorySize |-> p.healthcheck.memorySize,
   name |-> p.healthcheck.name,
   runtime |-> "nodejs6.10",
   package |-> [individually |-> TRUE, exclude |-> <<"**">>,
                include |-> <<p.folderName \o "/**">>],
   timeout |-> p.healthcheck.timeout]

\* part_000: the role statement after the literal
WithRole(desc, role) ==
  [k \in DOMAIN desc \cup {"role"} |->
     IF k = "role" THEN [FnGetAtt |-> <<role.v, "Arn">>] ELSE desc[k]]

\* the object assigned to functions.healthCheckPlugin
Descriptor(vr, p) ==
  IF vr = "part000" /\ Typeof(p.healthcheck.role) = "string"
    THEN WithRole(BaseDescriptor(vr, p), p.healthcheck.role)
    ELSE BaseDescriptor(vr, p)

\* addHealthCheckFunctionToService(): [functions, log]
AddHealthCheckFunctionToService(vr, p, fns) ==
  [functions |-> PutFunction(fns, PluginKey, Descriptor(vr, p)),
   log |-> IF vr = "part001" THEN <<>>
           ELSE <<[msg |-> "schedule", arg |-> p.healthcheck.schedule]>>]

(***************************************************************************)
(* createHealthCheck: [result, selected, fs, functions, log]               *)
(***************************************************************************)
NoLambdaLine == [msg |-> "HealthCheck: no lambda to check", arg |-> Undef]

\* NothingToCheck as `if (!functionNames)`: an empty array is truthy
NothingToCheckNever(targets) == Len(targets) < 0

\* the first .then: skip when nothing was selected
NothingToCheck(targets) == Len(targets) = 0

CreateHealthCheck(vr, p, c, opts, fns, files, readOk, writeOk) ==
  LET sel == SelectTargets(vr, fns, opts.stage)
  IN IF ~sel.ok
       THEN [result |-> "rejected", selected |-> Undef, fs |-> files,
             functions |-> fns, log |-> <<>>]
     ELSE IF NothingToCheck(sel.val)
       THEN [result |-> "ok", selected |-> L(sel.val), fs |-> files,
             functions |-> fns, log |-> <<NoLambdaLine>>]
     ELSE LET art == CreateHealthCheckFunctionArtifact(vr, p, c, fns, files,
                                                        sel.val, readOk, writeOk)
          IN IF ~art.ok
               THEN [result |-> "rejected", selected |-> L(sel.val),
                     fs |-> art.fs, functions |-> fns, log |-> art.log]
               ELSE LET add == AddHealthCheckFunctionToService(vr, p, fns)
                    IN [result |-> "ok", selected |-> L(sel.val),
                        fs |-> art.fs, functions |-> add.functions,
                        log |-> art.log \o add.log]

(***************************************************************************)
(* cleanFolder and healthCheckFunctions                                    *)
(***************************************************************************)
\* CleanFolder without its flag test: the folder is always removed
CleanFolderAlways(p, files) == [files EXCEPT ![p.folderName] = NoFile]

\* cleanFolder(): the files after it
CleanFolder(p, files) ==
  IF ~Truthy(p.healthcheck.cleanFolder) THEN files
  ELSE [files EXCEPT ![p.folderName] = NoFile]

\* what provider.request('Lambda', 'invoke', params) can end with: rejected,
\* or fulfilled with a payload that JSON.parse rejects or parses
Responses ==
  {[kind |-> "rejected", statusCode |-> Undef, errorMessage |-> Undef],
   [kind |-> "unparsable", statusCode |-> Undef, errorMessage |-> Undef]}
  \cup [kind : {"parsed"}, statusCode : {Undef, N(200), N(500)},
        errorMessage : {Undef, S("boom")}]

\* the .then handler throws: JSON.parse(data.Payload) in index.js and part_000
ThenThrows(vr, response) == vr # "part001" /\ response.kind = "unparsable"

\* the .then and .catch of healthCheckFunctions: the line logged
PrecheckLine(vr, response) ==
  IF response.kind = "rejected" \/ ThenThrows(vr, response)
    THEN [msg |-> "HealthCheck: Error while pre-checking functions", arg |-> Undef]
  ELSE IF vr = "part001"
    THEN [msg |-> "HealthCheck: Functions sucessfuly pre-checked", arg |-> Undef]
  ELSE IF (Truthy(response.statusCode) /\ ~StrictEq(response.statusCode, N(200)))
          \/ Truthy(response.errorMessage)
    THEN [msg |-> "HealthCheck: Failure: ", arg |-> response.errorMessage]
    ELSE [msg |-> "HealthCheck: Functions successfuly pre-checked", arg |-> Undef]

\* the promise after .then(...): rejected when the request was rejected or
\* the handler threw
AfterThen(vr, response) ==
  IF response.kind = "rejected" \/ ThenThrows(vr, response)
    THEN "rejected" ELSE "fulfilled"

\* AfterCatch without the .catch: the promise is returned as .then left it
AfterCatchMissing(settled) == settled

\* the promise after .catch(error => log(...)): the handler returns, so a
\* rejection becomes a fulfilment
AfterCatch(settled) == "fulfilled"

\* healthCheckFunctions(): how the returned promise settles and the lines
\* logged
HealthCheckFunctions(vr, response) ==
  [result |-> IF AfterCatch(AfterThen(vr, response)) = "fulfilled"
                THEN "ok" ELSE "rejected",
   log |-> <<[msg |-> "HealthCheck: Pre-checking up your functions", arg |-> Undef],
             PrecheckLine(vr, response)>>]

\* PrecheckEnabled as `precheck !== false`: an undefined flag enables it
PrecheckEnabledUnlessFalse(hc) == Get(hc, "precheck") # B(FALSE)

\* if (this.healthcheck.precheck)
PrecheckEnabled(hc) == Truthy(Get(hc, "precheck"))

(***************************************************************************)
(* The hooks.                                                              *)
(***************************************************************************)
\* how the file system answers in one run of the hook: the template read
\* (index.js and part_000 only) or the file write may fail
IoOutcomes(vr) ==
  IF vr = "part001" THEN {"ok", "writeFails"}
  ELSE {"ok", "readFails", "writeFails"}

\* 'after:package:initialize'
AfterPackageInitialize ==
  /\ phase \in {"start", "initialized", "reconfigured"}
  /\ calls < MaxCalls
  /\ \E io \in IoOutcomes(variant) :
     \E p \in {ConfigPlugin(variant, custom, options)} :
     \E out \in {CreateHealthCheck(variant, p, custom, options, functions,
                                   fs, io # "readFails", io # "writeFails")} :
          /\ plugin' = p
          /\ fs' = out.fs
          /\ functions' = out.functions
          /\ log' = out.log
          /\ result' = out.result
          /\ selected' = out.selected
          /\ phase' = IF out.result = "ok" THEN "initialized" ELSE "failed"
          /\ fsAnswer' = IF out.selected # Undef /\ ~NothingToCheck(out.selected.v)
                            THEN io ELSE "unused"
  /\ calls' = calls + 1
  /\ lastHook' = "afterPackageInitialize"
  /\ UNCHANGED <<variant, options, custom, invoked, precheckResponse>>
  /\ UNCHANGED handlerVars

\* 'after:package:createDeploymentArtifacts'
AfterCreateDeploymentArtifacts ==
  /\ phase = "initialized"
  /\ calls < MaxCalls
  /\ fs' = CleanFolder(plugin, fs)
  /\ log' = <<>>
  /\ result' = "ok"
  /\ phase' = "artifacts"
  /\ calls' = calls + 1
  /\ lastHook' = "afterCreateDeploymentArtifacts"
  /\ selected' = Undef
  /\ UNCHANGED <<variant, options, custom, functions, plugin, invoked,
                 fsAnswer, precheckResponse>>
  /\ UNCHANGED handlerVars

\* 'after:deploy:deploy'
AfterDeployFunctions ==
  /\ phase = "artifacts"
  /\ calls < MaxCalls
  /\ \E p \in {ConfigPlugin(variant, custom, options)} :
        /\ plugin' = p
        /\ IF PrecheckEnabled(p.healthcheck)
             THEN \E response \in Responses :
                  \E out \in {HealthCheckFunctions(variant, response)} :
                    /\ invoked' = Append(invoked, p.healthcheck.name)
                    /\ precheckResponse' = response
                    /\ log' = out.log
                    /\ result' = out.result
             ELSE /\ invoked' = invoked
                  /\ precheckResponse' = Undef
                  /\ log' = <<>>
                  /\ result' = "ok"
  /\ phase' = "deployed"
  /\ calls' = calls + 1
  /\ lastHook' = "afterDeployFunctions"
  /\ selected' = Undef
  /\ UNCHANGED <<variant, options, custom, functions, fs, fsAnswer>>
  /\ UNCHANGED handlerVars

(***************************************************************************)
(* The generated handler of part_001.                                      *)
(***************************************************************************)
\* how one lambda.invoke can settle: resolved with a 200 response, resolved
\* with a non-200 response, resolved with an error payload, or rejected
Outcomes == {"ok200", "non200", "errorPayload", "rejected"}

\* lambda.invoke(params).promise() is rejected
InvokeRejected(outcome) == outcome = "rejected"

\* AllSettled as Promise.race would have it: some invoke has settled
AnySettled(invokes) == \E i \in 1..Len(invokes) : invokes[i] # "pending"

\* Promise.all(invokes) is fulfilled: every invoke has settled
AllSettled(invokes) == \A i \in 1..Len(invokes) : invokes[i] # "pending"

\* loading the module: const functionNames = "...".split(",")
HandlerLoad ==
  /\ hPc = "unloaded"
  /\ hArtifact.kind = "inline"
  /\ hNames' = Split(hArtifact.functionNames)
  /\ hPc' = "idle"
  /\ UNCHANGED <<hArtifact, hTargets, hInvokes, hIssued, hErrors, hCallbacks, hLog>>
  /\ UNCHANGED lifecycleVars

\* module.exports.healthCheck(event, context, callback), up to its return:
\* the forEach issues one invoke per name and waits for none
HandlerInvoke ==
  /\ hPc \in {"idle", "done"}
  /\ hIssued' = hNames
  /\ hInvokes' = [i \in 1..Len(hNames) |-> "pending"]
  /\ hErrors' = 0
  /\ hCallbacks' = 0
  /\ hLog' = Undef
  /\ hPc' = "waiting"
  /\ UNCHANGED <<hArtifact, hTargets, hNames>>
  /\ UNCHANGED lifecycleVars

\* invoke i settles and its .then handler runs
Settle(i, outcome) ==
  /\ hPc = "waiting"
  /\ i \in 1..Len(hInvokes)
  /\ hInvokes[i] = "pending"
  /\ hInvokes' = [hInvokes EXCEPT ![i] = outcome]
  /\ hErrors' = IF InvokeRejected(outcome) THEN hErrors + 1 ELSE hErrors
  /\ UNCHANGED <<hArtifact, hTargets, hNames, hPc, hIssued, hCallbacks, hLog>>
  /\ UNCHANGED lifecycleVars

\* the .then of Promise.all(invokes)
Finish ==
  /\ hPc = "waiting"
  /\ AllSettled(hInvokes)
  /\ hLog' = [msg |-> "Health Check Finished with invoke errors", arg |-> N(hErrors)]
  /\ hCallbacks' = hCallbacks + 1
  /\ hPc' = "done"
  /\ UNCHANGED <<hArtifact, hTargets, hNames, hInvokes, hIssued, hErrors>>
  /\ UNCHANGED lifecycleVars

(***************************************************************************)
(* The inputs.                                                             *)
(***************************************************************************)
Variants == {"index", "part000", "part001"}
Stages == {S("dev"), S("prod"), S("staging"), Undef}
Folders == {"_healthcheck", "hc_dir"}

Header == O([schemaVersion |-> N(1), checks |-> L(<<>>)])

\* events of a declared function
HttpCheck(param) ==
  [http |-> [path |-> "/schema", method |-> "get",
             healthcheck |-> O([params |-> S(param)])]]
HttpFormatted ==
  [http |-> [path |-> "/item", method |-> "get",
             healthcheck |-> O([params |-> S("q"), format |-> O([id |-> S("item")])])]]
HttpPlain == [http |-> [path |-> "/plain", method |-> "get"]]
ScheduleOnly == [schedule |-> S("rate(1 hour)")]

\* function-level healthcheck declarations
Declarations ==
  {Undef, B(TRUE), B(FALSE), S("dev"), S("prod"), L(<<S("dev"), S("prod")>>)}

EventLists ==
  {<<HttpCheck("p")>>, <<HttpPlain, HttpFormatted>>, <<ScheduleOnly>>}

\* the declared shapes: every declaration without events, and the absent
\* and the true declaration with each event list
Shapes ==
  [decl : Declarations, events : {<<>>}]
  \cup [decl : {Undef, B(TRUE)}, events : EventLists]

FunctionObject(i, shape) ==
  LET base == [name |-> S("fn" \o ToString(i)), events |-> shape.events]
  IN IF shape.decl = Undef THEN base
     ELSE [name |-> base.name, events |-> base.events, healthcheck |-> shape.decl]

FunctionLists ==
  UNION {{[i \in 1..n |-> [key |-> "f" \o ToString(i),
                           obj |-> FunctionObject(i, shapes[i])]] :
            shapes \in [1..n -> Shapes]} : n \in 0..MaxFuncs}

\* the values an option of custom.healthcheck is given
ScheduleLists ==
  UNION {[1..n -> {S("a"), S("b")}] : n \in 0..MaxSchedule}

OptionFields ==
  {"cleanFolder", "memorySize", "role", "name", "schedule", "timeout",
   "precheck", "endpoint", "folderName", "format"}

FieldValues(f) ==
  CASE f = "cleanFolder" -> {B(FALSE), S("false")}
    [] f = "memorySize" -> {N(256), S("256")}
    [] f = "role" -> {S("myRole"), N(7)}
    [] f = "name" -> {S("make-them-pop"), N(1)}
    [] f = "schedule" ->
         {S("rate(1 minute)"), N(5), L(<<N(5)>>)} \cup {L(q) : q \in ScheduleLists}
    [] f = "timeout" -> {N(20), S("20")}
    [] f = "precheck" -> {B(TRUE), S("true")}
    [] f = "endpoint" -> {S("_show_health"), B(TRUE)}
    [] f = "folderName" -> {S("hc_dir"), N(0)}
    [] OTHER -> {Header}

\* the custom.healthcheck sections with at most k options set
RECURSIVE Sections(_)
Sections(k) ==
  IF k = 0 THEN {<<>>}
  ELSE LET less == Sections(k - 1)
       IN less \cup
          UNION {UNION {{[x \in DOMAIN g \cup {f} |-> IF x = f THEN v ELSE g[x]] :
                           v \in FieldValues(f)} :
                          f \in OptionFields \ DOMAIN g} : g \in less}

WideCustoms ==
  {Undef, O([plugins |-> N(1)])}
  \cup {O([healthcheck |-> O(g)]) : g \in Sections(MaxOverridden)}

FullSection ==
  [cleanFolder |-> B(FALSE), precheck |-> B(TRUE), role |-> S("myRole"),
   schedule |-> L(<<S("rate(1 minute)"), S("rate(2 minutes)")>>),
   format |-> Header]

NarrowCustoms ==
  {Undef, O([healthcheck |-> O([format |-> Header])]),
   O([healthcheck |-> O(FullSection)])}

NarrowFunctionLists ==
  {<<[key |-> "f1", obj |-> FunctionObject(1, [decl |-> B(TRUE),
                                              events |-> <<HttpCheck("p")>>])]>>}

\* the host changes the service's custom section and runs the package
\* lifecycle again
SetCustom ==
  /\ phase = "initialized"
  /\ calls < MaxCalls
  /\ custom' \in NarrowCustoms \ {custom}
  /\ phase' = "reconfigured"
  /\ UNCHANGED <<variant, options, functions, plugin, fs, log, calls,
                 lastHook, result, selected, invoked, fsAnswer,
                 precheckResponse>>
  /\ UNCHANGED handlerVars

NoPlugin ==
  [folderName |-> "", pathFolder |-> "", pathFile |-> "", pathHandler |-> "",
   healthcheck |-> <<>>]

HandlerIdle ==
  /\ hArtifact = NoFile
  /\ hTargets = <<>>
  /\ hNames = <<>>
  /\ hPc = "unloaded"
  /\ hInvokes = <<>>
  /\ hIssued = <<>>
  /\ hErrors = 0
  /\ hCallbacks = 0
  /\ hLog = Undef

Init ==
  /\ variant \in Variants
  /\ \/ /\ options \in [stage : Stages]
        /\ functions \in FunctionLists
        /\ custom \in NarrowCustoms
     \/ /\ options = [stage |-> S("dev")]
        /\ functions \in NarrowFunctionLists
        /\ custom \in WideCustoms
  /\ plugin = NoPlugin
  /\ fs = [d \in Folders |-> NoFile]
  /\ log = <<>>
  /\ phase = "start"
  /\ calls = 0
  /\ lastHook = "none"
  /\ result = "none"
  /\ selected = Undef
  /\ invoked = <<>>
  /\ fsAnswer = "unused"
  /\ precheckResponse = Undef
  /\ HandlerIdle

Next ==
  \/ AfterPackageInitialize
  \/ AfterCreateDeploymentArtifacts
  \/ AfterDeployFunctions
  \/ SetCustom

Spec == Init /\ [][Next]_vars

\* the handler alone, loaded from the artifact generated for hTargets
TargetNamePool == {S("a"), S("b"), S("a,b")}

HandlerInit ==
  /\ variant = "part001"
  /\ options = [stage |-> S("dev")]
  /\ functions = <<>>
  /\ custom = Undef
  /\ plugin = NoPlugin
  /\ fs = [d \in Folders |-> NoFile]
  /\ log = <<>>
  /\ phase = "deployed"
  /\ calls = 0
  /\ lastHook = "none"
  /\ result = "none"
  /\ selected = Undef
  /\ invoked = <<>>
  /\ fsAnswer = "unused"
  /\ precheckResponse = Undef
  /\ hTargets \in UNION {[1..n -> TargetNamePool] : n \in 1..MaxTargets}
  /\ hArtifact = InlineArtifact(hTargets)
  /\ hNames = <<>>
  /\ hPc = "unloaded"
  /\ hInvokes = <<>>
  /\ hIssued = <<>>
  /\ hErrors = 0
  /\ hCallbacks = 0
  /\ hLog = Undef

HandlerNext ==
  \/ HandlerLoad
  \/ HandlerInvoke
  \/ \E i \in 1..(2 * MaxTargets), outcome \in Outcomes : Settle(i, outcome)
  \/ Finish

\* every issued invoke settles, and a fulfilled Promise.all runs its .then
HandlerSpec ==
  /\ HandlerInit
  /\ [][HandlerNext]_vars
  /\ WF_vars(\E i \in 1..(2 * MaxTargets), outcome \in Outcomes : Settle(i, outcome))
  /\ WF_vars(Finish)
  /\ WF_vars(HandlerLoad)

(***************************************************************************)
(* Properties.                                                             *)
(***************************************************************************)
\* the last hook was package-initialize and its filter passed an array on
TargetsComputed ==
  /\ lastHook = "afterPackageInitialize"
  /\ selected # Undef

\* the last hook was package-initialize and it registered the descriptor
Registered ==
  /\ TargetsComputed
  /\ result = "ok"
  /\ Len(selected.v) > 0

\* the function-level declaration of the k-th selected target
SelectedDeclaration(k) ==
  IF variant = "part001"
    THEN Get(GetFunction(functions, selected.v[k]), "healthcheck")
    ELSE selected.v[k].stage

\* a declaration that enables the check for a stage string
DeclaredFor(decl, stage) ==
  \/ decl = B(TRUE)
  \/ (decl.t = "string" /\ decl = stage)
  \/ (decl.t = "array" /\ \E i \in 1..Len(decl.v) : decl.v[i] = stage)

DeclaredIndexes ==
  {i \in 1..Len(functions) :
     DeclaredFor(Get(functions[i].obj, "healthcheck"), options.stage)}

\* the k-th declared index, in declaration order
NthDeclared(k) ==
  CHOOSE i \in DeclaredIndexes :
    Cardinality({j \in DeclaredIndexes : j <= i}) = k

\* the k-th selected target is the function at index i
IsFunctionAt(k, i) ==
  IF variant = "part001"
    THEN selected.v[k] = functions[i].key
    ELSE /\ selected.v[k].name = functions[i].obj.name
         /\ selected.v[k].stage = Get(functions[i].obj, "healthcheck")

\* C1: with a stage string as the active stage, the target set computed at
\* package-initialize holds exactly the functions whose declaration is true,
\* the stage string, or a list containing it, once each, in declaration
\* order.
C1_TargetSetIsDeclared ==
  (TargetsComputed /\ options.stage.t = "string") =>
    /\ Len(selected.v) = Cardinality(DeclaredIndexes)
    /\ \A k \in 1..Len(selected.v) : IsFunctionAt(k, NthDeclared(k))

\* a list declaration and a string declaration both selected, in order
C1_Witness ==
  /\ TargetsComputed
  /\ options.stage = S("prod")
  /\ Len(functions) >= 2
  /\ Get(functions[1].obj, "healthcheck") = L(<<S("dev"), S("prod")>>)
  /\ Get(functions[2].obj, "healthcheck") = S("prod")
  /\ Len(selected.v) = 2

\* C2: a selected target always has a declaration that is true, a stage
\* string or a list of stage strings, whatever the stage option is (also
\* when it is undefined).
C2_UndeclaredNeverSelected ==
  TargetsComputed =>
    \A k \in 1..Len(selected.v) :
      LET decl == SelectedDeclaration(k)
      IN \/ decl = B(TRUE)
         \/ decl.t = "string"
         \/ (decl.t = "array" /\ \A i \in 1..Len(decl.v) : decl.v[i].t = "string")

\* a function has an http event that carries a healthcheck declaration
HasEventCheck(obj) ==
  \E i \in 1..Len(obj.events) :
    /\ "http" \in DOMAIN obj.events[i]
    /\ "healthcheck" \in DOMAIN obj.events[i].http

\* the names of the target list embedded in the artifact on disk
EmbeddedNames ==
  LET art == fs[plugin.folderName]
  IN IF art.kind = "template"
       THEN {art.healthchecks[i].name : i \in 1..Len(art.healthchecks)}
       ELSE {}

\* C3: in the per-route versions, after package-initialize every function
\* with an http event that carries a healthcheck declaration is in the
\* target list embedded in the generated artifact.
C3_EventChecksAreTargets ==
  (variant # "part001" /\ lastHook = "afterPackageInitialize" /\ result = "ok") =>
    \A i \in 1..Len(functions) :
      (functions[i].key # PluginKey /\ HasEventCheck(functions[i].obj)) =>
        functions[i].obj.name \in EmbeddedNames

\* C4: a package-initialize step whose target set is empty writes no file,
\* leaves the manifest unchanged, logs the "no lambda to check" line and
\* ends successfully.
C4_EmptyTargetSetSkips ==
  [][(calls' = calls + 1 /\ lastHook' = "afterPackageInitialize"
      /\ selected' = L(<<>>)) =>
       (/\ fs' = fs
        /\ functions' = functions
        /\ log' = <<[msg |-> "HealthCheck: no lambda to check", arg |-> Undef]>>
        /\ result' = "ok")]_vars

\* functions are declared, none matches, and the step ended successfully
C4_Witness ==
  /\ lastHook = "afterPackageInitialize"
  /\ selected = L(<<>>)
  /\ Len(functions) = 2
  /\ result = "ok"
  /\ \A d \in Folders : fs[d] = NoFile

\* configPlugin has run on the custom section as it is now
ConfigResolved ==
  /\ plugin # NoPlugin
  /\ phase # "reconfigured"

\* the value custom.healthcheck gives an option (Undef: none)
Overridden(f) ==
  IF custom.t = "object" /\ "healthcheck" \in DOMAIN custom.v
    THEN Get(custom.v.healthcheck.v, f)
    ELSE Undef

\* the type the specification expects of an option
ExpectedType(f) ==
  CASE f \in {"cleanFolder", "precheck"} -> "boolean"
    [] f \in {"memorySize", "timeout"} -> "number"
    [] OTHER -> "string"

\* the default the specification gives an option
SpecDefault(f) ==
  CASE f = "cleanFolder" -> B(TRUE)
    [] f = "memorySize" -> N(128)
    [] f = "name" -> S(ServiceName \o "-" \o ToStr(options.stage) \o "-healthcheck-plugin")
    [] f = "timeout" -> N(10)
    [] f = "precheck" -> B(FALSE)
    [] f = "endpoint" -> S("__health")
    [] f = "folderName" -> S("_healthcheck")
    [] OTHER -> Undef

\* the value configPlugin resolved for an option
Resolved(f) ==
  IF f = "folderName" THEN S(plugin.folderName) ELSE Get(plugin.healthcheck, f)

IsStringList(x) ==
  x.t = "array" /\ \A i \in 1..Len(x.v) : x.v[i].t = "string"

\* C5: every option takes its override when the override has the expected
\* type (for schedule: a string, wrapped, or a list of strings) and keeps
\* its default otherwise, independently of the other options.
C5_FieldsResolveIndependently ==
  ConfigResolved =>
    /\ \A f \in {"cleanFolder", "precheck", "memorySize", "timeout", "name",
                 "role", "endpoint", "folderName"} :
         Resolved(f) = IF Overridden(f).t = ExpectedType(f)
                         THEN Overridden(f) ELSE SpecDefault(f)
    /\ Resolved("schedule") =
         IF Overridden("schedule").t = "string" THEN L(<<Overridden("schedule")>>)
         ELSE IF IsStringList(Overridden("schedule")) THEN Overridden("schedule")
         ELSE L(<<S("rate(5 minutes)")>>)

\* C6: the resolved schedule is always a list: a string override is wrapped
\* into a one-element list, a list override is taken unchanged, and any
\* other override (or none) leaves the default list.
C6_ScheduleIsAList ==
  ConfigResolved =>
    LET o == Overridden("schedule")
        r == Resolved("schedule")
    IN /\ r.t = "array"
       /\ (o.t = "string" => r = L(<<o>>))
       /\ (o.t = "array" => r = o)
       /\ (o.t \notin {"string", "array"} => r = L(<<S("rate(5 minutes)")>>))

\* a string override, resolved to the list that holds it
C6_Witness ==
  /\ ConfigResolved
  /\ Overridden("schedule") = S("rate(1 minute)")
  /\ Resolved("schedule") = L(<<S("rate(1 minute)")>>)

\* the invokes that failed: everything but a resolved 200 response
FailedInvokes == {i \in 1..Len(hInvokes) : hInvokes[i] # "ok200"}

\* C7: when the handler has finished, every target was invoked exactly
\* once and the failure count it reports is the number of targets whose
\* invocation failed (rejected, non-200 response or error payload).
C7_CountsEveryFailure ==
  hPc = "done" =>
    /\ hIssued = hTargets
    /\ hLog.arg = N(Cardinality(FailedInvokes))

\* C8: the handler issues every invoke before any has settled, calls back
\* exactly once and only when every invoke has settled, and, every invoke
\* settling, always finishes.
C8_CompletesAfterAllSettle ==
  /\ [][(hPc # "waiting" /\ hPc' = "waiting") =>
          (/\ hIssued' = hNames
           /\ Len(hInvokes') = Len(hNames)
           /\ \A i \in 1..Len(hNames) : hInvokes'[i] = "pending"
           /\ ((\A k \in 1..Len(hTargets) : hTargets[k] \in {S("a"), S("b")})
                 => hIssued' = hTargets))]_vars
  /\ [](hCallbacks <= 1)
  /\ []((hCallbacks = 1 \/ hPc = "done") =>
          (/\ hCallbacks = 1
           /\ hPc = "done"
           /\ \A i \in 1..Len(hInvokes) : hInvokes[i] # "pending"))
  /\ ((hPc = "waiting") ~> (hPc = "done"))

\* a finished run of two invokes, one rejected and one fulfilled
C8_Witness ==
  /\ hPc = "done"
  /\ hCallbacks = 1
  /\ Len(hInvokes) = 2
  /\ hInvokes[1] = "rejected"
  /\ hInvokes[2] = "ok200"

\* the entries of the manifest under the reserved key
PluginEntries == {i \in 1..Len(functions) : functions[i].key = PluginKey}

PluginDescriptor == functions[CHOOSE i \in PluginEntries : TRUE].obj

\* the events of the descriptor that carry a schedule
ScheduleTriggers ==
  LET HasSchedule(e) == "schedule" \in DOMAIN e
  IN SelectSeq(PluginDescriptor.events, HasSchedule)

\* the schedule expressions one trigger carries
Carried(e) ==
  IF "rate" \in DOMAIN e.schedule THEN e.schedule.rate.v ELSE <<e.schedule>>

\* C9: the registered descriptor has one schedule trigger per entry of the
\* resolved schedule list, each carrying that one expression, and in the
\* versions with an endpoint the GET route of the endpoint, not private.
C9_OneTriggerPerSchedule ==
  Registered =>
    LET schedule == plugin.healthcheck.schedule.v
    IN /\ Len(ScheduleTriggers) = Len(schedule)
       /\ \A i \in 1..Len(ScheduleTriggers) :
            Carried(ScheduleTriggers[i]) = <<schedule[i]>>
       /\ variant # "part001" =>
            \E i \in 1..Len(PluginDescriptor.events) :
              /\ "http" \in DOMAIN PluginDescriptor.events[i]
              /\ PluginDescriptor.events[i].http =
                   [path |-> plugin.healthcheck.endpoint, method |-> "get",
                    private |-> FALSE]

\* C10: the manifest never holds more than one entry under the reserved
\* key, and after a registration that entry has the memory size, name,
\* timeout, handler, events and role of the configuration of that call and
\* nothing else.
C10_RegistrationOverwrites ==
  /\ Cardinality(PluginEntries) <= 1
  /\ Registered =>
       /\ Cardinality(PluginEntries) = 1
       /\ PluginDescriptor.memorySize = plugin.healthcheck.memorySize
       /\ PluginDescriptor.name = plugin.healthcheck.name
       /\ PluginDescriptor.timeout = plugin.healthcheck.timeout
       /\ PluginDescriptor.handler = plugin.pathHandler
       /\ IF variant = "part001"
            THEN /\ Len(PluginDescriptor.events) = Len(plugin.healthcheck.schedule.v)
                 /\ \A i \in 1..Len(PluginDescriptor.events) :
                      PluginDescriptor.events[i] =
                        [schedule |-> plugin.healthcheck.schedule.v[i]]
            ELSE /\ Len(PluginDescriptor.events) = 1
                 /\ PluginDescriptor.events[1].http.path = plugin.healthcheck.endpoint
                 /\ PluginDescriptor.events[1].schedule.rate = plugin.healthcheck.schedule
       /\ "role" \in DOMAIN PluginDescriptor <=>
            Get(plugin.healthcheck, "role").t = "string"
       /\ "role" \in DOMAIN PluginDescriptor =>
            PluginDescriptor.role = [FnGetAtt |-> <<plugin.healthcheck.role.v, "Arn">>]
       /\ DOMAIN PluginDescriptor \subseteq
            {"description", "events", "handler", "memorySize", "name",
             "runtime", "package", "timeout", "role"}

\* a second registration, under another folder name than the first: both
\* artifacts are on disk and the one descriptor names the second handler
C10_Witness ==
  /\ Registered
  /\ calls = 2
  /\ fs["hc_dir"] # NoFile
  /\ fs["_healthcheck"] # NoFile
  /\ Cardinality(PluginEntries) = 1
  /\ PluginDescriptor.handler = "_healthcheck/index.healthCheck"

\* the step is a run of the after-deploy hook
DeployStep == calls' = calls + 1 /\ lastHook' = "afterDeployFunctions"

\* the last hook was after-deploy and it issued the pre-check request
Prechecked ==
  /\ lastHook = "afterDeployFunctions"
  /\ precheckResponse # Undef

\* C11: an after-deploy trigger issues one pre-check invocation when the
\* resolved precheck flag is true and none otherwise (flag false or not
\* supplied), whatever the invocation ends with; no other step issues one.
C11_OnePrecheckIffEnabled ==
  [][IF DeployStep
       THEN /\ Len(invoked') =
                 Len(invoked) + (IF Resolved("precheck")' = B(TRUE) THEN 1 ELSE 0)
            /\ (Overridden("precheck") \in {Undef, B(FALSE)} => invoked' = invoked)
            /\ \A i \in 1..Len(invoked) : invoked'[i] = invoked[i]
       ELSE invoked' = invoked]_vars

\* the pre-check request was rejected and no second request followed
C11_Witness ==
  /\ Prechecked
  /\ precheckResponse.kind = "rejected"
  /\ Len(invoked) = 1

ReportsFailure(response) ==
  \/ response.statusCode \notin {Undef, N(200)}
  \/ response.errorMessage # Undef

\* C13: for every response the pre-check request returns, the one outcome
\* line logged is the failure line with the error detail when the response
\* carries a status other than 200 or an error message, and the success
\* line otherwise.
C13_FailureIffReported ==
  (Prechecked /\ precheckResponse.kind = "parsed") =>
    /\ Len(log) = 2
    /\ IF ReportsFailure(precheckResponse)
         THEN log[2] = [msg |-> "HealthCheck: Failure: ",
                        arg |-> precheckResponse.errorMessage]
         ELSE log[2].msg \in {"HealthCheck: Functions successfuly pre-checked",
                              "HealthCheck: Functions sucessfuly pre-checked"}

\* C14: a pre-check invocation is issued only when the package-initialize
\* step of the run registered a descriptor, and it names that descriptor.
C14_PrecheckInvokesRegistered ==
  Prechecked =>
    /\ PluginEntries # {}
    /\ invoked[Len(invoked)] = PluginDescriptor.name

\* the step is a run of the artifacts-created hook
ArtifactsStep == calls' = calls + 1 /\ lastHook' = "afterCreateDeploymentArtifacts"

\* the step is a run of the package-initialize hook
InitializeStep == calls' = calls + 1 /\ lastHook' = "afterPackageInitialize"

\* C15: the artifacts-created trigger removes the artifact folder when the
\* resolved cleanFolder flag is true and leaves every file where it is when
\* the flag is false; no other step removes a file.
C15_FolderCleanedIffFlag ==
  [][IF ArtifactsStep
       THEN /\ Resolved("cleanFolder") \in {B(TRUE), B(FALSE)}
            /\ Resolved("cleanFolder") =
                 (IF Overridden("cleanFolder").t = "boolean"
                    THEN Overridden("cleanFolder") ELSE B(TRUE))
            /\ IF Resolved("cleanFolder") = B(TRUE)
                 THEN /\ fs'[plugin.folderName] = NoFile
                      /\ \A d \in Folders \ {plugin.folderName} : fs'[d] = fs[d]
                 ELSE fs' = fs
       ELSE \A d \in Folders : fs[d] # NoFile => fs'[d] # NoFile]_vars

\* cleanFolder false: the artifact written at package-initialize is still on
\* disk after the artifacts-created trigger
C15_Witness ==
  /\ lastHook = "afterCreateDeploymentArtifacts"
  /\ Resolved("cleanFolder") = B(FALSE)
  /\ PluginEntries # {}
  /\ fs[plugin.folderName] # NoFile

\* C16: a package-initialize step with targets registers the descriptor only
\* when the template read and the file write succeeded, the artifact being
\* on disk; when either fails the step is rejected and leaves the manifest
\* as it was.
C16_RegisteredAfterWrite ==
  [][(InitializeStep /\ fsAnswer' # "unused") =>
       /\ fsAnswer' # "ok" => (result' = "rejected" /\ functions' = functions)
       /\ result' = "ok" =>
            /\ fsAnswer' = "ok"
            /\ fs'[plugin'.folderName].kind \in {"inline", "template"}
            /\ functions' = PutFunction(functions, PluginKey, Descriptor(variant, plugin'))
       /\ result' \in {"ok", "rejected"}]_vars

\* the file write failed: the step was rejected and nothing is registered
C16_Witness ==
  /\ lastHook = "afterPackageInitialize"
  /\ fsAnswer = "writeFails"
  /\ result = "rejected"
  /\ PluginEntries = {}
  /\ selected # Undef
  /\ Len(selected.v) = 2

\* C17: whatever the custom section is (none, no healthcheck section, no
\* format object, ill-typed options), a package-initialize step with targets
\* whose file system calls succeed ends successfully, the artifact written
\* and the descriptor registered.
C17_ConfigurationNeverFails ==
  (lastHook = "afterPackageInitialize" /\ fsAnswer = "ok") =>
    /\ result = "ok"
    /\ fs[plugin.folderName] # NoFile
    /\ PluginEntries # {}

\* C18: the names the handler reconstructs from the text embedded in its
\* artifact are the targets the artifact was generated from, in order.
C18_EmbeddedNamesRoundTrip ==
  hPc # "unloaded" => hNames = hTargets

\* the entries the scan is to return for a list of events: one per http
\* event with a healthcheck declaration, in order
RECURSIVE DeclaredChecks(_)
DeclaredChecks(events) ==
  IF events = <<>> THEN <<>>
  ELSE LET e == Head(events)
       IN IF "http" \in DOMAIN e /\ "healthcheck" \in DOMAIN e.http
            THEN <<[params |-> Get(e.http.healthcheck.v, "params"),
                    format |-> Get(e.http.healthcheck.v, "format")]>>
                 \o DeclaredChecks(Tail(events))
            ELSE DeclaredChecks(Tail(events))

\* C19: in the per-route versions the event scan of package-initialize
\* always completes, and the checks of every selected function are the
\* {params, format} entries of its http events with a healthcheck
\* declaration, in event order (none for events without an http section).
C19_EventScanNeverFails ==
  (variant # "part001" /\ lastHook = "afterPackageInitialize") =>
    /\ selected # Undef
    /\ \A k \in 1..Len(selected.v) :
         \E i \in 1..Len(functions) :
           /\ functions[i].obj.name = selected.v[k].name
           /\ selected.v[k].checks = DeclaredChecks(functions[i].obj.events)

\* C20: a step changes no manifest entry but the one under the reserved
\* key, which it may add last; the artifacts-created and after-deploy hooks
\* leave the manifest as it is.
C20_ManifestFrame ==
  [][/\ Len(functions') >= Len(functions)
     /\ \A i \in 1..Len(functions) :
          functions[i].key # PluginKey => functions'[i] = functions[i]
     /\ \A i \in (Len(functions) + 1)..Len(functions') :
          functions'[i].key = PluginKey
     /\ ~InitializeStep => functions' = functions]_vars

\* a whole run with two declared targets: both entries are as declared and
\* the descriptor is the third entry
C20_Witness ==
  /\ phase = "deployed"
  /\ Len(functions) = 3
  /\ functions[1].key = "f1" /\ Get(functions[1].obj, "healthcheck") = B(TRUE)
  /\ functions[2].key = "f2" /\ Get(functions[2].obj, "healthcheck") = S("prod")
  /\ functions[3].key = PluginKey

====
